---- MODULE Spec2Model ----
(***************************************************************************)
(* pychecked: run-time checking and coercion of annotated arguments.       *)
(*                                                                         *)
(* The module models src/pychecked/type_checking.py: the static Config     *)
(* store (ConfigDict / Config), the recursive engine _do_validation and    *)
(* the wrapper type_checked / _type_checked.                               *)
(*                                                                         *)
(* Python objects are records [type, id, val].  `id` is the identity of    *)
(* the object: the objects handed to the program carry distinct ids, the   *)
(* singletons True, False and None carry their own, and an object built    *)
(* while the program runs carries the id "new".  "a is b" is SameObject.   *)
(* Text and bytes are sequences of one-character strings, floats are       *)
(* counted in tenths.                                                      *)
(***************************************************************************)
EXTENDS FiniteSets, Integers, Sequences, TLC

VARIABLES has_config, config, wrapped, last

vars == <<has_config, config, wrapped, last>>

-----------------------------------------------------------------------------
(* Python objects                                                          *)

Obj(t, i, v) == [type |-> t, id |-> i, val |-> v]
\* an object built during the run
New(t, v) == Obj(t, "new", v)

PyTrue == Obj("bool", "True", 1)
PyFalse == Obj("bool", "False", 0)
PyNone == Obj("NoneType", "None", 0)
PyBool(b) == IF b THEN PyTrue ELSE PyFalse

\* a is b
SameObject(a, b) == a.id # "new" /\ a.id = b.id

\* the classes of the model and their method resolution order
Mro ==
  [ bool     |-> {"bool", "int", "object"},
    int      |-> {"int", "object"},
    float    |-> {"float", "object"},
    complex  |-> {"complex", "object"},
    str      |-> {"str", "object"},
    bytes    |-> {"bytes", "object"},
    NoneType |-> {"NoneType", "object"},
    list     |-> {"list", "object"},
    tuple    |-> {"tuple", "object"},
    dict     |-> {"dict", "object"},
    object   |-> {"object"},
    TestObj  |-> {"TestObj", "object"},
    NestObj  |-> {"NestObj", "TestObj", "object"} ]

isinstance(value, classes) == Mro[value.type] \cap classes # {}

-----------------------------------------------------------------------------
(* Text: formatting and parsing of numbers                                 *)

DigitChars == <<"0", "1", "2", "3", "4", "5", "6", "7", "8", "9">>

IsDigit(c) == \E i \in 1..10 : DigitChars[i] = c
DigitVal(c) == (CHOOSE i \in 1..10 : DigitChars[i] = c) - 1

RECURSIVE NatToStr(_)
NatToStr(n) ==
  IF n < 10 THEN <<DigitChars[n + 1]>>
  ELSE NatToStr(n \div 10) \o <<DigitChars[(n % 10) + 1]>>

Abs(n) == IF n < 0 THEN -n ELSE n
IntToStr(n) == IF n < 0 THEN <<"-">> \o NatToStr(-n) ELSE NatToStr(n)
FloatToStr(t) ==
  (IF t < 0 THEN <<"-">> ELSE <<>>)
    \o NatToStr(Abs(t) \div 10) \o <<".">> \o NatToStr(Abs(t) % 10)

RECURSIVE StripLeft(_)
StripLeft(s) == IF s # <<>> /\ Head(s) = " " THEN StripLeft(Tail(s)) ELSE s
RECURSIVE StripRight(_)
StripRight(s) ==
  IF s # <<>> /\ s[Len(s)] = " " THEN StripRight(SubSeq(s, 1, Len(s) - 1))
  ELSE s
Strip(s) == StripRight(StripLeft(s))

HasSign(s) == s # <<>> /\ Head(s) \in {"+", "-"}
Unsigned(s) == IF HasSign(s) THEN Tail(s) ELSE s
SignOf(s) == IF s # <<>> /\ Head(s) = "-" THEN -1 ELSE 1

RECURSIVE ParseNat(_)
ParseNat(s) ==
  IF s = <<>> THEN 0
  ELSE ParseNat(SubSeq(s, 1, Len(s) - 1)) * 10 + DigitVal(s[Len(s)])

AllDigits(s) == \A i \in 1..Len(s) : IsDigit(s[i])

\* the text is an integer literal: [ws] [sign] digit+ [ws]
IsIntLiteral(s) ==
  LET body == Unsigned(Strip(s)) IN body # <<>> /\ AllDigits(body)
ParseInt(s) == SignOf(Strip(s)) * ParseNat(Unsigned(Strip(s)))

DotAt(s) == IF \E i \in 1..Len(s) : s[i] = "."
            THEN CHOOSE i \in 1..Len(s) : s[i] = "." /\ \A j \in 1..(i - 1) : s[j] # "."
            ELSE Len(s) + 1
WholePart(s) == SubSeq(s, 1, DotAt(s) - 1)
FracPart(s) == SubSeq(s, DotAt(s) + 1, Len(s))

\* the text is a decimal literal: [ws] [sign] digit* [. digit*] [ws], a digit
\* at least
IsFloatLiteral(s) ==
  LET body == Unsigned(Strip(s)) IN
    /\ AllDigits(WholePart(body))
    /\ AllDigits(FracPart(body))
    /\ Len(WholePart(body)) + Len(FracPart(body)) > 0
\* its value in tenths (the digits after the first decimal are dropped)
ParseFloat(s) ==
  LET body == Unsigned(Strip(s)) IN
    SignOf(Strip(s)) *
      (ParseNat(WholePart(body)) * 10
         + (IF FracPart(body) = <<>> THEN 0 ELSE DigitVal(FracPart(body)[1])))

\* truncation toward zero of a float counted in tenths
Trunc(t) == IF t < 0 THEN -(Abs(t) \div 10) ELSE t \div 10

-----------------------------------------------------------------------------
(* Built-in conversions                                                    *)

\* the outcome of a call: the object returned, or the exception raised
Returned(v) == [ok |-> TRUE, value |-> v]
Raised(exc) == [ok |-> FALSE, exc |-> exc]

Numeric == {"bool", "int", "float"}
\* the value of a number, in tenths
Tenths(v) == IF v.type = "float" THEN v.val ELSE v.val * 10

RECURSIVE PyEq(_, _)
\* a == b
PyEq(a, b) ==
  IF a.type \in Numeric /\ b.type \in Numeric THEN Tenths(a) = Tenths(b)
  ELSE IF a.type # b.type THEN FALSE
  ELSE IF a.type \in {"str", "bytes", "NoneType", "complex"} THEN a.val = b.val
  ELSE IF a.type \in {"list", "tuple"}
    THEN /\ Len(a.val) = Len(b.val)
         /\ \A i \in 1..Len(a.val) : PyEq(a.val[i], b.val[i])
  ELSE a = b

RECURSIVE Hashable(_)
Hashable(v) ==
  IF v.type \in {"list", "dict"} THEN FALSE
  ELSE IF v.type = "tuple" THEN \A i \in 1..Len(v.val) : Hashable(v.val[i])
  ELSE TRUE

\* d[k] = v keeping the value of a key already there
DictSet_KeepFirst(entries, k, v) ==
  IF \E i \in 1..Len(entries) : PyEq(entries[i][1], k) THEN entries
  ELSE Append(entries, <<k, v>>)

\* d[k] = v on the entries of a dict, kept in insertion order: an equal key
\* keeps its place and its key object, and takes the new value
DictSet(entries, k, v) ==
  IF \E i \in 1..Len(entries) : PyEq(entries[i][1], k)
  THEN [i \in 1..Len(entries) |->
          IF PyEq(entries[i][1], k) THEN <<entries[i][1], v>> ELSE entries[i]]
  ELSE Append(entries, <<k, v>>)

RECURSIVE JoinChars(_, _)
JoinChars(parts, sep) ==
  IF parts = <<>> THEN <<>>
  ELSE IF Len(parts) = 1 THEN parts[1]
  ELSE parts[1] \o sep \o JoinChars(Tail(parts), sep)

RECURSIVE StrOf(_)
RECURSIVE Repr(_)
\* the text of str(v)
StrOf(v) ==
  CASE v.type = "str" -> v.val
    [] v.type = "bool" -> IF v.val = 1 THEN <<"T", "r", "u", "e">>
                          ELSE <<"F", "a", "l", "s", "e">>
    [] v.type = "int" -> IntToStr(v.val)
    [] v.type = "float" -> FloatToStr(v.val)
    [] v.type = "NoneType" -> <<"N", "o", "n", "e">>
    [] v.type = "bytes" -> <<"b", "'">> \o v.val \o <<"'">>
    [] v.type = "complex" ->
         <<"(">> \o IntToStr(v.val[1]) \o <<"+">> \o IntToStr(v.val[2]) \o <<"j", ")">>
    [] v.type = "list" ->
         <<"[">> \o JoinChars([i \in 1..Len(v.val) |-> Repr(v.val[i])], <<",", " ">>)
           \o <<"]">>
    [] v.type = "tuple" ->
         <<"(">> \o JoinChars([i \in 1..Len(v.val) |-> Repr(v.val[i])], <<",", " ">>)
           \o (IF Len(v.val) = 1 THEN <<",">> ELSE <<>>) \o <<")">>
    [] v.type = "dict" ->
         <<"{">> \o JoinChars([i \in 1..Len(v.val) |->
                        Repr(v.val[i][1]) \o <<":", " ">> \o Repr(v.val[i][2])],
                      <<",", " ">>)
           \o <<"}">>
    [] OTHER -> <<"<", v.type, ">">>
\* the text of repr(v): a text is quoted, in double quotes when it holds a
\* single quote and no double quote
Repr(v) ==
  LET Holds(c) == \E i \in 1..Len(v.val) : v.val[i] = c
      quote == IF Holds("'") /\ ~Holds("\"") THEN <<"\"">> ELSE <<"'">>
  IN IF v.type = "str" THEN quote \o v.val \o quote ELSE StrOf(v)

\* bool(v)
Truthy(v) ==
  CASE v.type \in Numeric -> v.val # 0
    [] v.type = "complex" -> v.val # <<0, 0>>
    [] v.type = "NoneType" -> FALSE
    [] v.type \in {"str", "bytes", "list", "tuple", "dict"} -> v.val # <<>>
    [] OTHER -> TRUE

\* the code of a character of a bytes object
Ord(c) ==
  CASE c = "1" -> 49 [] c = "2" -> 50 [] c = "e" -> 101 [] c = "p" -> 112
    [] c = "y" -> 121 [] OTHER -> 255

\* iter(v): the objects v yields, or the TypeError of an object not iterable
Iterate(v) ==
  CASE v.type \in {"list", "tuple"} -> Returned(v.val)
    [] v.type = "str" -> Returned([i \in 1..Len(v.val) |-> New("str", <<v.val[i]>>)])
    [] v.type = "bytes" -> Returned([i \in 1..Len(v.val) |-> New("int", Ord(v.val[i]))])
    [] v.type = "dict" -> Returned([i \in 1..Len(v.val) |-> v.val[i][1]])
    [] OTHER -> Raised("TypeError")

RECURSIVE DictOfPairs(_, _)
\* dict(iterable of pairs): every element must yield two objects, the first
\* of them hashable
DictOfPairs(elems, acc) ==
  IF elems = <<>> THEN Returned(New("dict", acc))
  ELSE LET it == Iterate(Head(elems)) IN
    IF ~it.ok THEN Raised("TypeError")
    ELSE IF Len(it.value) # 2 THEN Raised("ValueError")
    ELSE IF ~Hashable(it.value[1]) THEN Raised("TypeError")
    ELSE DictOfPairs(Tail(elems), DictSet(acc, it.value[1], it.value[2]))

\* type_(value) for a class type_
Construct(name, v) ==
  CASE name = "int" ->
         CASE v.type = "int" -> Returned(v)
           [] v.type = "bool" -> Returned(New("int", v.val))
           [] v.type = "float" -> Returned(New("int", Trunc(v.val)))
           [] v.type \in {"str", "bytes"} ->
                IF IsIntLiteral(v.val) THEN Returned(New("int", ParseInt(v.val)))
                ELSE Raised("ValueError")
           [] OTHER -> Raised("TypeError")
    [] name = "float" ->
         CASE v.type = "float" -> Returned(v)
           [] v.type \in {"int", "bool"} -> Returned(New("float", v.val * 10))
           [] v.type \in {"str", "bytes"} ->
                IF IsFloatLiteral(v.val) THEN Returned(New("float", ParseFloat(v.val)))
                ELSE Raised("ValueError")
           [] OTHER -> Raised("TypeError")
    [] name = "str" ->
         IF v.type = "str" THEN Returned(v) ELSE Returned(New("str", StrOf(v)))
    [] name = "bool" -> Returned(PyBool(Truthy(v)))
    [] name = "list" ->
         IF Iterate(v).ok THEN Returned(New("list", Iterate(v).value))
         ELSE Raised("TypeError")
    [] name = "tuple" ->
         IF v.type = "tuple" THEN Returned(v)
         ELSE IF Iterate(v).ok THEN Returned(New("tuple", Iterate(v).value))
         ELSE Raised("TypeError")
    [] name = "dict" ->
         IF v.type = "dict" THEN Returned(New("dict", v.val))
         ELSE IF Iterate(v).ok THEN DictOfPairs(Iterate(v).value, <<>>)
         ELSE Raised("TypeError")
    \* object, TestObj and NestObj take no argument
    [] OTHER -> Raised("TypeError")

\* len(value), the function used as a callable shape
CallFunction(name, v) ==
  IF name = "len" /\ v.type \in {"str", "bytes", "list", "tuple", "dict"}
  THEN Returned(New("int", Len(v.val)))
  ELSE Raised("TypeError")

\* value.decode(): every byte of the model is ASCII but "\\xff"
Decode(v) ==
  IF \E i \in 1..Len(v.val) : v.val[i] = "\\xff" THEN Raised("UnicodeDecodeError")
  ELSE Returned(New("str", v.val))

\* tuple(elements): the empty tuple is one object
MakeTuple(elems) ==
  IF elems = <<>> THEN Obj("tuple", "()", <<>>) ELSE New("tuple", elems)

-----------------------------------------------------------------------------
(* Shapes: the objects used as annotations                                 *)

TypeShape(name) == [kind |-> "type", name |-> name]
ListShape(elems) == [kind |-> "list", elems |-> elems]
TupleShape(elems) == [kind |-> "tuple", elems |-> elems]
\* a dict annotation, its items in insertion order
DictShape(items) == [kind |-> "dict", items |-> items]
FunctionShape(name) == [kind |-> "function", name |-> name]
ModuleShape(name) == [kind |-> "module", name |-> name]
StrShape(chars) == [kind |-> "str", val |-> chars]

\* hasattr(type_, "__name__")
HasName(type_) == type_.kind \in {"type", "function", "module"}
\* hasattr(type_, "__iter__")
HasIter(type_) == type_.kind \in {"list", "tuple", "dict", "str"}
\* callable(type_)
Callable(type_) == type_.kind \in {"type", "function"}
\* the objects iterating type_ yields
Subtypes(type_) ==
  CASE type_.kind \in {"list", "tuple"} -> type_.elems
    [] type_.kind = "dict" -> [i \in 1..Len(type_.items) |-> type_.items[i][1]]
    [] OTHER -> [i \in 1..Len(type_.val) |-> StrShape(<<type_.val[i]>>)]

RECURSIVE JoinNames(_)
\* ", ".join([t.__name__ for t in types])
JoinNames(types) ==
  IF types = <<>> THEN ""
  ELSE IF Len(types) = 1 THEN types[1].name
  ELSE types[1].name \o ", " \o JoinNames(Tail(types))

AllNamed(types) == \A i \in 1..Len(types) : HasName(types[i])

-----------------------------------------------------------------------------
(* _do_validation                                                          *)

\* The outcome of a validation: the object returned or the exception raised,
\* with the trace of the steps taken (calls of _do_validation, reads of the
\* configuration, conversions tried, lines printed).
Ok(v, tr) == [ok |-> TRUE, value |-> v, trace |-> tr]
Fail(exc, msg, tr) == [ok |-> FALSE, exc |-> exc, msg |-> msg, trace |-> tr]

NoNameError(tr) ==
  Fail("AttributeError", [fmt |-> "object has no attribute '__name__'"], tr)

_raise_error(type_, value, tr) ==
  LET Mismatch(type_name) ==
        Fail("TypeError",
             [fmt |-> "{} is of type {}, expecting {}.", value |-> StrOf(value),
              actual |-> value.type, expecting |-> type_name], tr)
  IN IF HasName(type_) THEN Mismatch(type_.name)
     ELSE IF HasIter(type_)
       THEN IF AllNamed(Subtypes(type_))
            THEN Mismatch("a " \o type_.kind \o " of " \o JoinNames(Subtypes(type_)))
            ELSE NoNameError(tr)
     ELSE Mismatch(type_.kind)

\* _log(message): reads Config debug, prints when it is set
Log(cfg, tr) ==
  tr \o <<"Config.get(debug)">> \o (IF cfg.debug THEN <<"print">> ELSE <<>>)

\* value is type_: the value is the class object itself
ValueIsType(value, type_) == value.type = "type" /\ value.val = type_.name

\* the test of lines 200-202 without its boolean case
ScalarMatch_NoBool(type_, value) == isinstance(value, {type_.name})

\* the test of lines 200-202
ScalarMatch(type_, value) ==
  LET is_bool == isinstance(value, {"bool"}) IN
    \/ is_bool /\ ValueIsType(value, type_)
    \/ ~is_bool /\ isinstance(value, {type_.name})

\* line 204 never raising
Strict_Off(cfg) == FALSE

\* line 204: not Config.get("coerce")
Strict(cfg) == ~cfg.coerce

\* lines 192-195
Normalize(type_) ==
  IF type_.kind = "list" /\ type_.elems = <<>> THEN TypeShape("list")
  ELSE IF type_.kind = "dict" /\ type_.items = <<>> THEN TypeShape("dict")
  ELSE type_

RECURSIVE _do_validation(_, _, _)

RECURSIVE ValidateAll(_, _, _, _, _)
\* the loops of lines 237-238 and 242-243: values[i] against types[i], in
\* order, up to the first exception
ValidateAll(types, values, cfg, acc, tr) ==
  IF values = <<>> THEN Ok(acc, tr)
  ELSE LET r == _do_validation(Head(types), Head(values), cfg) IN
    IF ~r.ok THEN [r EXCEPT !.trace = tr \o r.trace]
    ELSE ValidateAll(Tail(types), Tail(values), cfg, Append(acc, r.value),
                     tr \o r.trace)

RECURSIVE ValidateEntries(_, _, _, _, _, _)
\* the loop of lines 218-220: the right-hand side (the value) is evaluated
\* before the subscript (the key)
ValidateEntries(key_type, value_type, entries, cfg, acc, tr) ==
  IF entries = <<>> THEN Ok(acc, tr)
  ELSE LET rv == _do_validation(value_type, Head(entries)[2], cfg)
           rk == _do_validation(key_type, Head(entries)[1], cfg)
       IN IF ~rv.ok THEN [rv EXCEPT !.trace = tr \o rv.trace]
          ELSE IF ~rk.ok THEN [rk EXCEPT !.trace = tr \o rv.trace \o rk.trace]
          ELSE IF ~Hashable(rk.value)
            THEN Fail("TypeError", [fmt |-> "unhashable type"],
                      tr \o rv.trace \o rk.trace)
          ELSE ValidateEntries(key_type, value_type, Tail(entries), cfg,
                               DictSet(acc, rk.value, rv.value),
                               tr \o rv.trace \o rk.trace)

\* lines 208-221, a dict shape and a dict value
MappingStep(type_, value, cfg, tr) ==
  LET key_type == type_.items[1][1]
      value_type == type_.items[1][2]
      r == ValidateEntries(key_type, value_type, value.val, cfg, <<>>, tr)
  IN IF r.ok THEN Ok(New("dict", r.value), r.trace) ELSE r

\* line 239 returning the list it built
SameKind_List(type_, elems) == New("list", elems)

\* line 239: type(type_)(validated_values)
SameKind(type_, elems) ==
  IF type_.kind = "tuple" THEN MakeTuple(elems) ELSE New("list", elems)

\* line 244 returning the kind of the shape
Broadcast_SameKind(type_, elems) ==
  IF type_.kind = "tuple" THEN MakeTuple(elems) ELSE New("list", elems)

\* line 244: return validated_values, a list
Broadcast(type_, elems) == New("list", elems)

\* lines 246-250
LengthMismatch(type_, tr) ==
  IF AllNamed(type_.elems)
  THEN Fail("TypeError",
            [fmt |-> "Argument length mismatch. Expected a {} of {}.",
             kind |-> type_.kind, names |-> JoinNames(type_.elems)], tr)
  ELSE NoNameError(tr)

\* lines 222-250, a list or tuple shape
SequenceStep(type_, value, cfg, tr) ==
  LET is_seq == isinstance(value, {"list", "tuple"})
      wrapped_one == isinstance(value, {"str", "int", "bytes", "complex"})
      it == Iterate(value)
      tr1 == IF is_seq THEN tr ELSE tr \o <<"Config.get(coerce)">>
  IN IF ~is_seq /\ ~cfg.coerce THEN _raise_error(type_, value, tr1)
     ELSE IF ~is_seq /\ ~wrapped_one /\ ~it.ok
       THEN _raise_error(type_, value, Log(cfg, tr1 \o <<"list(value)">>))
     ELSE
       LET items == IF is_seq THEN value.val
                    ELSE IF wrapped_one THEN <<value>> ELSE it.value
           tr2 == IF is_seq THEN tr1
                  ELSE IF wrapped_one THEN tr1 \o <<"[value]">>
                  ELSE tr1 \o <<"list(value)">>
       IN IF Len(type_.elems) = Len(items)
          THEN LET r == ValidateAll(type_.elems, items, cfg, <<>>, tr2) IN
                 IF r.ok THEN Ok(SameKind(type_, r.value), r.trace) ELSE r
          ELSE IF Len(type_.elems) = 1
          THEN LET r == ValidateAll([i \in 1..Len(items) |-> type_.elems[1]],
                                    items, cfg, <<>>, tr2) IN
                 IF r.ok THEN Ok(Broadcast(type_, r.value), r.trace) ELSE r
          ELSE LengthMismatch(type_, tr2)

\* lines 253-264, a callable shape
CallableStep(type_, value, cfg, tr) ==
  LET r == IF type_.kind = "type" THEN Construct(type_.name, value)
           ELSE CallFunction(type_.name, value)
      tr1 == tr \o <<"type_(value)">>
      tr2 == Log(cfg, tr1)
      tr3 == tr2 \o <<"Config.get(coerce)", "int(float(value))">>
      as_float == Construct("float", value)
  IN IF r.ok THEN Ok(r.value, tr1)
     ELSE IF type_ = TypeShape("int")
       THEN IF cfg.coerce
            THEN IF as_float.ok
                 THEN Ok(Construct("int", as_float.value).value, tr3)
                 ELSE _raise_error(type_, value, Log(cfg, tr3))
            ELSE _raise_error(type_, value, tr2 \o <<"Config.get(coerce)">>)
     ELSE _raise_error(type_, value, tr2)

\* lines 208-268: what follows the short circuit
Dispatch(type_, value, cfg, tr) ==
  IF type_.kind = "dict" /\ isinstance(value, {"dict"})
    THEN MappingStep(type_, value, cfg, tr)
  ELSE IF type_.kind \in {"list", "tuple"}
    THEN SequenceStep(type_, value, cfg, tr)
  ELSE IF type_ = TypeShape("str") /\ isinstance(value, {"bytes"})
    THEN IF Decode(value).ok THEN Ok(Decode(value).value, tr \o <<"value.decode()">>)
         ELSE Fail("UnicodeDecodeError", [fmt |-> "can't decode"],
                   tr \o <<"value.decode()">>)
  ELSE IF Callable(type_)
    THEN CallableStep(type_, value, cfg, tr)
  ELSE Fail("ValueError",
            [fmt |-> "type {} is not a type or callable.", type_ |-> type_], tr)

_do_validation(type_0, value, cfg) ==
  LET type_ == Normalize(type_0)
      tr == <<"_do_validation">>
  IN IF type_.kind = "type"
     THEN IF ScalarMatch(type_, value) THEN Ok(value, tr \o <<"return value">>)
          ELSE IF Strict(cfg)
            THEN _raise_error(type_, value, tr \o <<"Config.get(coerce)">>)
          ELSE Dispatch(type_, value, cfg, tr \o <<"Config.get(coerce)">>)
     ELSE Dispatch(type_, value, cfg, tr)

-----------------------------------------------------------------------------
(* The inputs of the model                                                 *)

\* the longest list, tuple or dict handed in, and the longest list or tuple
\* used as a shape
MaxLen == 2

Chars12 == <<"1", "2">>
CharsAbc == <<"a", "b", "c">>
Chars10_4 == <<"1", "0", ".", "4">>
CharsYep == <<"y", "e", "p">>

Int5 == Obj("int", "int5", 5)
Int12 == Obj("int", "int12", 12)
Float10_4 == Obj("float", "float10.4", 104)
Str12 == Obj("str", "str12", Chars12)
StrAbc == Obj("str", "strabc", CharsAbc)
Str10_4 == Obj("str", "str10.4", Chars10_4)
BytesYep == Obj("bytes", "bytesyep", CharsYep)
ATestObj == Obj("TestObj", "testobj", 0)
ANestObj == Obj("NestObj", "nestobj", 0)
AComplex == Obj("complex", "complex", <<15, 2>>)

Atoms ==
  {PyTrue, PyFalse, PyNone, Int5, Int12, Float10_4, Str12, StrAbc, Str10_4,
   BytesYep, ATestObj, ANestObj, AComplex}

\* the objects found inside the containers handed in
ElemAtoms == {PyTrue, Int5, Str12}
SeqsOf(S, n) == UNION {[1..k -> S] : k \in 0..n}

Lists == {Obj("list", "list", s) : s \in SeqsOf(ElemAtoms, MaxLen)}
Tuples ==
  {IF s = <<>> THEN MakeTuple(s) ELSE Obj("tuple", "tuple", s) :
     s \in SeqsOf(ElemAtoms, MaxLen)}

\* dicts: entries with keys distinct under ==
KeyAtoms == {Int12, Str12}
DistinctKeys(entries) ==
  \A i, j \in 1..Len(entries) : i # j => ~PyEq(entries[i][1], entries[j][1])
Dicts ==
  {Obj("dict", "dict", e) :
     e \in {s \in SeqsOf(KeyAtoms \X {StrAbc, Int5}, MaxLen) : DistinctKeys(s)}}

\* containers of containers
Nested ==
  {Obj("list", "nested1", <<Obj("tuple", "inner1", <<Float10_4, PyNone>>)>>),
   Obj("tuple", "nested2", <<Str12, Obj("dict", "inner2", <<<<Int12, Str12>>>>)>>),
   Obj("list", "nested3", <<Obj("list", "inner3", <<StrAbc, Str12>>), PyTrue>>),
   Obj("dict", "nested4", <<<<Str12, Obj("tuple", "inner4", <<Str12, Int5>>)>>>>)}

Values == Atoms \cup Lists \cup Tuples \cup Dicts \cup Nested

ScalarNames ==
  {"int", "float", "str", "bool", "object", "TestObj", "NestObj", "list",
   "tuple", "dict"}
ScalarShapes == {TypeShape(n) : n \in ScalarNames}

ElemShapes == {TypeShape("int"), TypeShape("str"), TypeShape("bool")}
SequenceShapes ==
  {ListShape(s) : s \in SeqsOf(ElemShapes, MaxLen)}
    \cup {TupleShape(s) : s \in SeqsOf(ElemShapes, MaxLen)}

MappingShapes ==
  {DictShape(<<>>)} \cup
  {DictShape(<<<<k, v>>>>) : k \in {TypeShape("int"), TypeShape("str")},
                             v \in {TypeShape("str"), TypeShape("int")}}

NestedShapes ==
  {ListShape(<<TupleShape(<<TypeShape("int"), TypeShape("str")>>)>>),
   TupleShape(<<ListShape(<<TypeShape("int")>>), TypeShape("str")>>),
   TupleShape(<<TypeShape("str"),
                DictShape(<<<<TypeShape("str"), TypeShape("int")>>>>)>>),
   DictShape(<<<<TypeShape("int"),
                 TupleShape(<<TypeShape("int"), TypeShape("str")>>)>>>>),
   DictShape(<<<<TupleShape(<<TypeShape("int")>>), TypeShape("str")>>>>)}

OtherShapes ==
  {FunctionShape("len"), ModuleShape("sys"), StrShape(<<"e", "l", "s", "e">>)}

Shapes ==
  ScalarShapes \cup SequenceShapes \cup MappingShapes \cup NestedShapes
    \cup OtherShapes

-----------------------------------------------------------------------------
(* ConfigDict and Config                                                   *)

ConfigKeys == {"active", "coerce", "debug"}

\* ConfigDict(active=True, coerce=True, debug=False)
Defaults == [k \in ConfigKeys |-> IF k = "debug" THEN PyFalse ELSE PyTrue]

\* Config.config(): the store, created with the defaults at the first access
Config_config == IF has_config THEN config ELSE Defaults

\* ConfigDict.__setitem__ without the test of line 59
ConfigDict_setitem_AnyValue(store, key, value) ==
  IF key \notin DOMAIN store
    THEN [ok |-> FALSE, store |-> store, msg |-> "{} is not a valid config key."]
  ELSE [ok |-> TRUE, store |-> [store EXCEPT ![key] = value], msg |-> ""]

\* ConfigDict.__setitem__: the store after store[key] = value, or the
\* ValueError raised
ConfigDict_setitem(store, key, value) ==
  IF key \notin DOMAIN store
    THEN [ok |-> FALSE, store |-> store, msg |-> "{} is not a valid config key."]
  ELSE IF isinstance(value, {"bool"})
    THEN [ok |-> TRUE, store |-> [store EXCEPT ![key] = value], msg |-> ""]
  ELSE [ok |-> FALSE, store |-> store, msg |-> "{} is not a valid config value."]

\* dict.get(key, default)
Config_get(store, key, default) ==
  IF key \in DOMAIN store THEN store[key] ELSE default

\* the policy _do_validation reads from the store
Policy(store) ==
  [coerce |-> Truthy(Config_get(store, "coerce", PyNone)),
   debug |-> Truthy(Config_get(store, "debug", PyNone))]

\* line 115 with the check left out
Active_Always(store) == TRUE

\* line 115: Config.get("active")
Active(store) == Truthy(Config_get(store, "active", PyNone))

-----------------------------------------------------------------------------
(* type_checked and _type_checked                                          *)

\* no parameter: the None of getfullargspec's varargs and varkw
NoParam == "None"

Annotated(pairs) == [n \in {p[1] : p \in pairs} |-> (CHOOSE p \in pairs : p[1] = n)[2]]

\* the functions wrapped: what inspect.getfullargspec and __annotations__
\* give for each
Funcs ==
  [ run_test |->
      [args |-> <<"ok", "then", "sure">>, varargs |-> NoParam, varkw |-> NoParam,
       kwonlyargs |-> <<>>,
       annotations |-> Annotated({<<"ok", TypeShape("int")>>,
                                  <<"then", TypeShape("str")>>,
                                  <<"sure", TypeShape("float")>>})],
    run_star |->
      [args |-> <<"wat">>, varargs |-> "args", varkw |-> "kwargs",
       kwonlyargs |-> <<>>,
       annotations |-> Annotated({<<"wat", TypeShape("int")>>,
                                  <<"args", TypeShape("float")>>,
                                  <<"kwargs", TypeShape("str")>>})] ]

FuncNames == DOMAIN Funcs

\* lines 126-129 without the IndexError branch
ArgName_NoVarargs(func_sig, i) ==
  IF i <= Len(func_sig.args) THEN func_sig.args[i] ELSE NoParam

\* lines 126-129
ArgName(func_sig, i) ==
  IF i <= Len(func_sig.args) THEN func_sig.args[i] ELSE func_sig.varargs

\* r, its trace after tr
After(tr, r) == [r EXCEPT !.trace = tr \o r.trace]

\* the values validated so far with the outcome r of the next: one value
\* more, or the exception r raised
Collect(sofar, r) ==
  IF r.ok THEN Ok(Append(sofar.value, r.value), sofar.trace \o r.trace)
  ELSE After(sofar.trace, r)

\* lines 131-134: the positional value i, validated when its name is annotated
ValidateArg(func_sig, args, i, cfg) ==
  IF ArgName(func_sig, i) \in DOMAIN func_sig.annotations
  THEN _do_validation(func_sig.annotations[ArgName(func_sig, i)], args[i], cfg)
  ELSE Ok(args[i], <<>>)

RECURSIVE ValidateArgs(_, _, _, _, _)
\* the loop of lines 125-134 from position i on, r the outcome so far
ValidateArgs(func_sig, args, i, cfg, r) ==
  IF ~r.ok \/ i > Len(args) THEN r
  ELSE ValidateArgs(func_sig, args, i + 1, cfg,
                    Collect(r, ValidateArg(func_sig, args, i, cfg)))

InSeq(x, s) == \E i \in 1..Len(s) : s[i] = x

\* the shape lines 137-144 validate the keyword kwarg against, if any
KwargShape(func_sig, kwarg) ==
  IF kwarg \in DOMAIN func_sig.annotations
    THEN <<func_sig.annotations[kwarg]>>
  ELSE IF ~InSeq(kwarg, func_sig.args)
          /\ func_sig.varkw \in DOMAIN func_sig.annotations
    THEN <<func_sig.annotations[func_sig.varkw]>>
  ELSE <<>>

\* the keyword value kwvalue against the shape found for it, if any
ValidateKwarg(shape, kwvalue, cfg) ==
  IF shape # <<>> THEN _do_validation(shape[1], kwvalue, cfg)
  ELSE Ok(kwvalue, <<>>)

\* the entry (kwarg, r.value) for a validated keyword value
Named(kwarg, r) == IF r.ok THEN [r EXCEPT !.value = <<kwarg, r.value>>] ELSE r

RECURSIVE ValidateKwargs(_, _, _, _, _)
\* the loop of lines 136-144 and the update of line 146 from entry i on:
\* kwargs keeps its names and their order, the validated values replace the
\* originals
ValidateKwargs(func_sig, kwargs, i, cfg, r) ==
  IF ~r.ok \/ i > Len(kwargs) THEN r
  ELSE ValidateKwargs(func_sig, kwargs, i + 1, cfg,
         Collect(r, Named(kwargs[i][1],
                          ValidateKwarg(KwargShape(func_sig, kwargs[i][1]),
                                        kwargs[i][2], cfg))))

\* func(*v_args, **kwargs) once both loops are through
Invoke(pos, kw) ==
  IF ~pos.ok THEN pos
  ELSE IF ~kw.ok THEN kw
  ELSE Ok([args |-> pos.value, kwargs |-> kw.value], kw.trace)

\* the keyword loop runs when the positional loop raised nothing
KwargsAfter(func_sig, kwargs, cfg, pos) ==
  IF pos.ok THEN ValidateKwargs(func_sig, kwargs, 1, cfg, Ok(<<>>, pos.trace))
  ELSE pos

\* lines 119-147
Checked(func_sig, kwargs, cfg, pos) ==
  Invoke(pos, KwargsAfter(func_sig, kwargs, cfg, pos))

\* _type_checked(*args, **kwargs): the arguments func is called with, or the
\* exception raised before it is called
_type_checked(func_sig, args, kwargs, store) ==
  IF ~Active(store) THEN Ok([args |-> args, kwargs |-> kwargs], <<>>)
  ELSE Checked(func_sig, kwargs, Policy(store),
               ValidateArgs(func_sig, args, 1, Policy(store), Ok(<<>>, <<>>)))

\* lines 150-151 keeping the overrides off the store
SetAll_Scoped(store, overrides) == [ok |-> TRUE, store |-> store, msg |-> ""]

RECURSIVE SetAll(_, _)
\* lines 150-151: Config.set(key, value) for every override, in order, up to
\* the first ValueError
SetAll(store, overrides) ==
  IF overrides = <<>> THEN [ok |-> TRUE, store |-> store, msg |-> ""]
  ELSE LET r == ConfigDict_setitem(store, Head(overrides)[1], Head(overrides)[2])
       IN IF r.ok THEN SetAll(r.store, Tail(overrides)) ELSE r

-----------------------------------------------------------------------------
(* The program: the store, the wrapped functions, the last operation        *)

\* the most positional values of a call
MaxArgs == 2

Int1 == Obj("int", "int1", 1)
SetKeys == ConfigKeys \cup {"something_fake"}
SetValues == {PyTrue, PyFalse, Int1, StrAbc}
GetDefaults == {PyNone, PyTrue}

Overrides ==
  {<<>>, <<<<"coerce", PyFalse>>>>, <<<<"coerce", PyTrue>>>>,
   <<<<"active", PyFalse>>>>, <<<<"debug", PyTrue>>>>,
   <<<<"debug", StrAbc>>>>, <<<<"something_fake", PyTrue>>>>,
   <<<<"coerce", PyFalse>>, <<"something_fake", PyTrue>>>>}

CallAtoms == {Str12, PyFalse}
CallArgs == SeqsOf(CallAtoms, MaxArgs)
CallKwargs == {<<>>, <<<<"then", PyFalse>>>>, <<<<"foo", Str12>>>>}

Init ==
  /\ has_config = FALSE
  /\ config = <<>>
  /\ wrapped = [f \in FuncNames |-> "no"]
  /\ last = [op |-> "start"]

\* Config.get(key, default)
ConfigGet(key, default) ==
  /\ has_config' = TRUE
  /\ config' = Config_config
  /\ last' = [op |-> "Config.get", key |-> key, default |-> default,
              result |-> Config_get(Config_config, key, default)]
  /\ UNCHANGED wrapped

\* Config.set(key, value)
ConfigSet(key, value) ==
  LET r == ConfigDict_setitem(Config_config, key, value) IN
    /\ has_config' = TRUE
    /\ config' = r.store
    /\ last' = [op |-> "Config.set", key |-> key, value |-> value,
                ok |-> r.ok, msg |-> r.msg]
    /\ UNCHANGED wrapped

\* @type_checked or @type_checked(**overrides) on the definition of func
Wrap(func, overrides) ==
  LET r == SetAll(Config_config, overrides) IN
    /\ wrapped[func] = "no"
    /\ has_config' = (has_config \/ overrides # <<>>)
    /\ config' = IF overrides # <<>> THEN r.store ELSE config
    /\ wrapped' = IF ~r.ok THEN wrapped
                  ELSE [wrapped EXCEPT
                          ![func] = IF overrides = <<>> THEN "plain" ELSE "overrides"]
    /\ last' = [op |-> "type_checked", func |-> func, overrides |-> overrides,
                ok |-> r.ok, msg |-> r.msg]

\* a call of the wrapped func
Call(func, args, kwargs) ==
  /\ wrapped[func] # "no"
  /\ has_config' = TRUE
  /\ config' = Config_config
  /\ last' = [op |-> "call", func |-> func, args |-> args, kwargs |-> kwargs,
              result |-> _type_checked(Funcs[func], args, kwargs, Config_config)]
  /\ UNCHANGED wrapped

Next ==
  \/ \E key \in SetKeys, default \in GetDefaults : ConfigGet(key, default)
  \/ \E key \in SetKeys, value \in SetValues : ConfigSet(key, value)
  \/ \E func \in FuncNames, overrides \in Overrides : Wrap(func, overrides)
  \/ \E func \in FuncNames, args \in CallArgs, kwargs \in CallKwargs :
       Call(func, args, kwargs)

Spec == Init /\ [][Next]_vars

-----------------------------------------------------------------------------
(* The engine alone: one validation of a given shape and value under a     *)
(* given configuration                                                     *)

InitV ==
  /\ has_config = TRUE
  /\ config \in {[k \in ConfigKeys |->
                    IF k = "coerce" THEN PyBool(c)
                    ELSE IF k = "debug" THEN PyBool(d) ELSE PyTrue] :
                   c \in BOOLEAN, d \in BOOLEAN}
  /\ wrapped = [f \in FuncNames |-> "no"]
  /\ last \in {[op |-> "given", type_ |-> s, value |-> v] :
                 s \in Shapes, v \in Values}

Validate ==
  /\ last.op = "given"
  /\ last' = [op |-> "_do_validation", type_ |-> last.type_,
              value |-> last.value,
              result |-> _do_validation(last.type_, last.value, Policy(config))]
  /\ UNCHANGED <<has_config, config, wrapped>>

NextV == Validate

SpecV == InitV /\ [][NextV]_vars

-----------------------------------------------------------------------------
(* The wrapper alone: one call of a wrapped function with given values     *)
(* under a given configuration                                             *)

\* the functions called: those of Funcs and three more signatures, one with
\* defaults and **kw, one with keyword-only parameters, one with a parameter
\* left without annotation
Sigs ==
  Funcs @@
  [ run_kwargs |->
      [args |-> <<"nothing", "special", "going", "on">>, varargs |-> NoParam,
       varkw |-> "kw", kwonlyargs |-> <<>>,
       annotations |-> Annotated({<<"going", TypeShape("int")>>,
                                  <<"kw", TypeShape("str")>>})],
    run_kwonly |->
      [args |-> <<>>, varargs |-> "args", varkw |-> "kwargs",
       kwonlyargs |-> <<"ok", "plain">>,
       annotations |-> Annotated({<<"ok", TypeShape("int")>>,
                                  <<"kwargs", TypeShape("str")>>})],
    run_unchecked |->
      [args |-> <<"something", "something_else">>, varargs |-> NoParam,
       varkw |-> NoParam, kwonlyargs |-> <<>>,
       annotations |-> Annotated({<<"something", TypeShape("str")>>})] ]

RouteAtoms == {Str12, PyFalse, Int5}
RouteArgs == SeqsOf(RouteAtoms, MaxArgs)
KwNames == {"ok", "plain", "going", "on", "foo"}
KwValues == {Str12, Int5}
\* the keywords of a call: none, one, or two of different names
RouteKwargs ==
  {<<>>}
    \cup {<<<<n, v>>>> : n \in KwNames, v \in KwValues}
    \cup {<<<<n, v>>, <<m, w>>>> :
            <<n, v, m, w>> \in {q \in KwNames \X KwValues \X KwNames \X KwValues :
                                  q[1] # q[3]}}

InitC ==
  /\ has_config = TRUE
  /\ config \in {[k \in ConfigKeys |->
                    IF k = "active" THEN PyBool(a)
                    ELSE IF k = "coerce" THEN PyBool(c) ELSE PyFalse] :
                   a \in BOOLEAN, c \in BOOLEAN}
  /\ wrapped = [f \in FuncNames |-> "plain"]
  /\ last \in {[op |-> "given", func |-> f, args |-> a, kwargs |-> k] :
                 f \in DOMAIN Sigs, a \in RouteArgs, k \in RouteKwargs}

\* the call of the wrapped function
Route ==
  /\ last.op = "given"
  /\ last' = [op |-> "call", func |-> last.func, args |-> last.args,
              kwargs |-> last.kwargs,
              result |-> _type_checked(Sigs[last.func], last.args, last.kwargs,
                                       config)]
  /\ UNCHANGED <<has_config, config, wrapped>>

NextC == Route

SpecC == InitC /\ [][NextC]_vars

-----------------------------------------------------------------------------
(* Properties of _do_validation, checked under SpecV                       *)

\* _do_validation has run on the input drawn
Done == last.op = "_do_validation"
\* what the store says
Coerce == config["coerce"] = PyTrue
IsActive == config["active"] = PyTrue
InTrace(step, r) == \E i \in 1..Len(r.trace) : r.trace[i] = step
\* no conversion of any kind was tried
NoConversion(r) ==
  /\ ~InTrace("type_(value)", r)
  /\ ~InTrace("value.decode()", r)
  /\ ~InTrace("int(float(value))", r)
  /\ ~InTrace("list(value)", r)
  /\ ~InTrace("[value]", r)

\* the runtime type of v satisfies the class T; for a boolean v, T is bool
Satisfies(T, v) ==
  IF v.type = "bool" THEN T.name = "bool" ELSE T.name \in Mro[v.type]

\* the value came back untouched: same object, nothing built or converted
Untouched(r, v) ==
  /\ r.ok
  /\ SameObject(r.value, v)
  /\ r.value = v
  /\ r.trace = <<"_do_validation", "return value">>

\* the TypeError of _raise_error for a class
IsMismatch(r, type_, v) ==
  /\ ~r.ok
  /\ r.exc = "TypeError"
  /\ r.msg = [fmt |-> "{} is of type {}, expecting {}.", value |-> StrOf(v),
              actual |-> v.type, expecting |-> type_.name]

\* C1 (identity): for every class T, every value whose runtime type satisfies
\* T (a boolean satisfies only bool) and both settings of coerce, the
\* validation succeeds and returns the very same object, no constructor
\* called, nothing copied.
C1_Identity ==
  (Done /\ last.type_.kind = "type" /\ Satisfies(last.type_, last.value))
    => Untouched(last.result, last.value)

\* True against bool with coerce off: the test "value is type_" of line 201
\* compares the value with the class, so the TypeError is raised
C1_Raises ==
  /\ Done /\ ~Coerce
  /\ last.value = PyTrue /\ last.type_ = TypeShape("bool")
  /\ IsMismatch(last.result, last.type_, last.value)

\* C2 (boolean exclusivity): a boolean validated against int or float never
\* comes back through the identity path.  With coerce off the validation
\* raises the TypeError of a mismatch; with coerce on the result is the
\* number int(b) / float(b) built by the constructor, of the class asked
\* for, and not the boolean object.
C2_BooleanExclusivity ==
  (Done /\ last.value.type = "bool"
        /\ last.type_ \in {TypeShape("int"), TypeShape("float")})
    => /\ ~InTrace("return value", last.result)
       /\ ~Coerce => /\ IsMismatch(last.result, last.type_, last.value)
                     /\ NoConversion(last.result)
       /\ Coerce =>
            /\ last.result.ok
            /\ last.result.value =
                 New(last.type_.name,
                     IF last.type_.name = "int" THEN last.value.val
                     ELSE last.value.val * 10)
            /\ ~SameObject(last.result.value, last.value)
            /\ last.result.trace =
                 <<"_do_validation", "Config.get(coerce)", "type_(value)">>

\* True against int with coerce on: the new int 1
C2_Witness ==
  /\ Done /\ Coerce
  /\ last.value = PyTrue /\ last.type_ = TypeShape("int")
  /\ last.result.ok /\ last.result.value = New("int", 1)

\* C3 (strict mode): while coerce is false, a value that does not satisfy
\* the class T raises the TypeError "<value> is of type <actual>, expecting
\* <T name>." and no constructor, no decoding of bytes and no int(float(v))
\* is tried; so a validation against a class either returns the value itself
\* or raises, and never returns a converted value.
C3_StrictMode ==
  (Done /\ ~Coerce /\ last.type_.kind = "type")
    => /\ ~Satisfies(last.type_, last.value)
            => /\ IsMismatch(last.result, last.type_, last.value)
               /\ NoConversion(last.result)
       /\ last.result.ok => Untouched(last.result, last.value)

\* "10.4" against int with coerce off: the TypeError, where coerce on gives 10
C3_Witness ==
  /\ Done /\ ~Coerce
  /\ last.value = Str10_4 /\ last.type_ = TypeShape("int")
  /\ IsMismatch(last.result, last.type_, last.value)
  /\ _do_validation(last.type_, last.value, [coerce |-> TRUE, debug |-> FALSE])
       = Ok(New("int", 10),
            <<"_do_validation", "Config.get(coerce)", "type_(value)",
              "Config.get(debug)", "Config.get(coerce)", "int(float(value))">>)

\* a list or a tuple: the ordered containers of line 223
IsOrdered(v) == v.type \in {"list", "tuple"}

\* the outcomes of validating values[i] against types[i], one by one
Each(types, values) ==
  [i \in 1..Len(values) |-> _do_validation(types[i], values[i], Policy(config))]
AllOk(rs) == \A i \in 1..Len(rs) : rs[i].ok
FirstBad(rs) == CHOOSE i \in 1..Len(rs) : ~rs[i].ok /\ \A j \in 1..(i - 1) : rs[j].ok
ValuesOf(rs) == [i \in 1..Len(rs) |-> rs[i].value]
RECURSIVE Traces(_, _)
\* the steps of the first n validations, in order
Traces(rs, n) == IF n = 0 THEN <<>> ELSE Traces(rs, n - 1) \o rs[n].trace

\* r raises what the first failing validation of rs raised, after the
\* validations before it and none after it
RaisesFirst(r, rs) ==
  /\ ~r.ok
  /\ r.exc = rs[FirstBad(rs)].exc
  /\ r.msg = rs[FirstBad(rs)].msg
  /\ r.trace = <<"_do_validation">> \o Traces(rs, FirstBad(rs))

\* r returns a container built from the values of rs, element by element in
\* order
ReturnsEach(r, rs) ==
  /\ r.ok
  /\ r.value.val = ValuesOf(rs)
  /\ r.trace = <<"_do_validation">> \o Traces(rs, Len(rs))

\* C4 (fixed arity): a list or tuple shape of N element shapes and a list or
\* tuple value of length N give a sequence of the kind of the shape (whatever
\* the kind of the value), built by the call, of length N, whose element i is
\* the validation of value[i] against shape[i], in order; a failing element
\* fails the call with its error.  (The shape [] is the any-sequence
\* sentinel, not a shape of 0 elements.  The empty tuple is one object in
\* CPython, so tuple([]) built for the shape () is the empty tuple handed
\* in; every other result is an object the value was not.)
C4_FixedArity ==
  (Done /\ last.type_.kind \in {"list", "tuple"}
        /\ last.type_ # ListShape(<<>>)
        /\ IsOrdered(last.value)
        /\ Len(last.value.val) = Len(last.type_.elems))
    => LET rs == Each(last.type_.elems, last.value.val) IN
         IF AllOk(rs)
         THEN /\ ReturnsEach(last.result, rs)
              /\ last.result.value.type = last.type_.kind
              /\ Len(last.result.value.val) = Len(last.type_.elems)
              /\ \/ last.result.value.id = "new"
                 \/ last.type_ = TupleShape(<<>>)
         ELSE RaisesFirst(last.result, rs)

\* the tuple ("12", 5) against [int, str]: the new list [12, "5"]
C4_Witness ==
  /\ Done /\ Coerce
  /\ last.type_ = ListShape(<<TypeShape("int"), TypeShape("str")>>)
  /\ last.value = Obj("tuple", "tuple", <<Str12, Int5>>)
  /\ last.result.ok
  /\ last.result.value = New("list", <<New("int", 12), New("str", <<"5">>)>>)

\* what the sequence branch iterates over: the list or tuple itself, the
\* value wrapped in a list, or the items list(value) gives
Presented(v) ==
  IF IsOrdered(v) THEN v.val
  ELSE IF isinstance(v, {"str", "int", "bytes", "complex"}) THEN <<v>>
  ELSE Iterate(v).value
\* the wrapping / iteration step gives a sequence
Presentable(v) ==
  \/ IsOrdered(v)
  \/ Coerce /\ (isinstance(v, {"str", "int", "bytes", "complex"}) \/ Iterate(v).ok)
Calls(r) == Cardinality({i \in 1..Len(r.trace) : r.trace[i] = "_do_validation"})

\* C5 (length mismatch): a list or tuple shape of N > 1 element shapes,
\* whatever they are, and a value whose length after the wrapping / iteration
\* step differs from N raise the TypeError "Argument length mismatch.
\* Expected a <kind> of <element shapes>.", no element validated.
C5_LengthMismatch ==
  (Done /\ last.type_.kind \in {"list", "tuple"}
        /\ Len(last.type_.elems) > 1
        /\ Presentable(last.value)
        /\ Len(Presented(last.value)) # Len(last.type_.elems))
    => /\ ~last.result.ok
       /\ last.result.exc = "TypeError"
       /\ last.result.msg.fmt = "Argument length mismatch. Expected a {} of {}."
       /\ last.result.msg.kind = last.type_.kind
       /\ AllNamed(last.type_.elems)
            => last.result.msg.names = JoinNames(last.type_.elems)
       /\ Calls(last.result) = 1

\* the shape ([int], str) and a value of another length: line 249 reads
\* __name__ of the list [int], and the AttributeError is what is raised
C5_Raises ==
  /\ Done
  /\ last.type_ = TupleShape(<<ListShape(<<TypeShape("int")>>), TypeShape("str")>>)
  /\ last.value = Obj("tuple", "tuple", <<Int5>>)
  /\ ~last.result.ok
  /\ last.result.exc = "AttributeError"

\* C6 (broadcast): a shape of one element shape S, list or tuple, and a list
\* or tuple value of length L # 1 (0 also) give a new list (for a tuple shape
\* too) of length L whose element i is the validation of value[i] against S,
\* in order; a failing element fails the call with its error.
C6_Broadcast ==
  (Done /\ last.type_.kind \in {"list", "tuple"}
        /\ Len(last.type_.elems) = 1
        /\ IsOrdered(last.value)
        /\ Len(last.value.val) # 1)
    => LET rs == Each([i \in 1..Len(last.value.val) |-> last.type_.elems[1]],
                      last.value.val)
       IN IF AllOk(rs)
          THEN /\ ReturnsEach(last.result, rs)
               /\ last.result.value.type = "list"
               /\ last.result.value.id = "new"
               /\ Len(last.result.value.val) = Len(last.value.val)
          ELSE RaisesFirst(last.result, rs)

\* the tuple ("12", True) against (int,): the new list [12, 1]
C6_Witness ==
  /\ Done /\ Coerce
  /\ last.type_ = TupleShape(<<TypeShape("int")>>)
  /\ last.value = Obj("tuple", "tuple", <<Str12, PyTrue>>)
  /\ last.result.ok
  /\ last.result.value = New("list", <<New("int", 12), New("int", 1)>>)

\* a dict shape {K: V} and a dict value
MappingCase ==
  /\ Done
  /\ last.type_.kind = "dict" /\ last.type_.items # <<>>
  /\ last.value.type = "dict"
KeyShape == last.type_.items[1][1]
ValueShape == last.type_.items[1][2]
\* the validations of the keys and of the values of the entries, in order
KeyResults ==
  Each([i \in 1..Len(last.value.val) |-> KeyShape],
       [i \in 1..Len(last.value.val) |-> last.value.val[i][1]])
ValueResults ==
  Each([i \in 1..Len(last.value.val) |-> ValueShape],
       [i \in 1..Len(last.value.val) |-> last.value.val[i][2]])
\* entry i can be stored: its key and its value validate, and the validated
\* key can be hashed
EntryOk(i) ==
  /\ ValueResults[i].ok
  /\ KeyResults[i].ok
  /\ Hashable(KeyResults[i].value)
Entries == 1..Len(last.value.val)
\* the result holds key -> value
Maps(d, key, value) ==
  \E n \in 1..Len(d.val) : PyEq(d.val[n][1], key) /\ d.val[n][2] = value
\* the last entry whose validated key equals the validated key of entry i
LastWithKey(i) ==
  CHOOSE j \in Entries :
    /\ PyEq(KeyResults[j].value, KeyResults[i].value)
    /\ \A k \in Entries :
         PyEq(KeyResults[k].value, KeyResults[i].value) => k <= j
\* a new dict, never the dict handed in, whose keys come from the validated
\* keys and, for classes K and V, are instances of K and of V
NewMapping(d) ==
  /\ d.type = "dict" /\ d.id = "new" /\ ~SameObject(d, last.value)
  /\ \A n \in 1..Len(d.val) :
       /\ \E i \in Entries : d.val[n][1] = KeyResults[i].value
       /\ KeyShape.kind = "type" => Satisfies(KeyShape, d.val[n][1])
       /\ ValueShape.kind = "type" => Satisfies(ValueShape, d.val[n][2])
  /\ \A n, o \in 1..Len(d.val) : n # o => ~PyEq(d.val[n][1], d.val[o][1])

\* C7 as stated (mapping coercion): for every dict shape {K: V} and dict
\* value m whose entries validate, the result is a new dict, never m, that
\* for every entry (k, v) of m maps the validation of k against K to the
\* validation of v against V; its keys satisfy K and its values V.
C7_EveryEntry ==
  (MappingCase /\ \A i \in Entries : EntryOk(i))
    => /\ last.result.ok
       /\ NewMapping(last.result.value)
       /\ \A i \in Entries :
            Maps(last.result.value, KeyResults[i].value, ValueResults[i].value)

\* C7 (mapping coercion): for every dict shape {K: V} and dict value m whose
\* entries validate, the result is a new dict, never m, that for every entry
\* (k, v) of m maps the validation of k against K to the validation against V
\* of the value of the last entry of m whose validated key equals that of k
\* (the validation of v itself when no later key of m validates to an equal
\* key); its keys satisfy K and its values V.  An entry that does not
\* validate fails the call.
C7_LastEntryWins ==
  MappingCase
    => IF \A i \in Entries : EntryOk(i)
       THEN /\ last.result.ok
            /\ NewMapping(last.result.value)
            /\ \A i \in Entries :
                 Maps(last.result.value, KeyResults[i].value,
                      ValueResults[LastWithKey(i)].value)
       ELSE ~last.result.ok

\* {12: "abc", "12": 5} against {int: str}: both keys validate to 12, and the
\* result is {12: "5"}
C7_Witness ==
  /\ MappingCase /\ Coerce
  /\ last.type_ = DictShape(<<<<TypeShape("int"), TypeShape("str")>>>>)
  /\ last.value = Obj("dict", "dict", <<<<Int12, StrAbc>>, <<Str12, Int5>>>>)
  /\ last.result.ok
  /\ last.result.value = New("dict", <<<<Int12, New("str", <<"5">>)>>>>)

-----------------------------------------------------------------------------
(* Properties of Config and of the wrapped functions, checked under Spec    *)

\* a wrapped function has been called
Called == last.op = "call"
\* the shape declared for the first positional parameter of the function
\* called, and the validation of the first positional value against it under
\* the store of the call
FirstShape == Funcs[last.func].annotations[ArgName(Funcs[last.func], 1)]
FirstValidation == _do_validation(FirstShape, last.args[1], Policy(config))
\* the call validated its first positional value: it raised what the
\* validation raised, or went on with the validated value
ValidatedFirst ==
  /\ last.result.trace # <<>>
  /\ SubSeq(last.result.trace, 1, Len(FirstValidation.trace))
       = FirstValidation.trace
  /\ IF FirstValidation.ok
     THEN last.result.ok => last.result.value.args[1] = FirstValidation.value
     ELSE last.result = FirstValidation

\* C8 (deactivation): active is read at every call.  In every state where
\* active is false a call of a wrapped function hands the function exactly
\* the positional and keyword values given (same objects, same order),
\* validates none of them and raises nothing, whatever the shapes declared;
\* where active is true the same functions validate.
C8_Deactivation ==
  Called
    => /\ ~IsActive
            => last.result = Ok([args |-> last.args, kwargs |-> last.kwargs], <<>>)
       /\ (IsActive /\ last.args # <<>>) => ValidatedFirst

\* active and coerce false: run_test("12", False) goes through untouched,
\* and the same call raises once active is true again
C8_Witness ==
  /\ Called /\ ~IsActive /\ ~Coerce
  /\ last.func = "run_test" /\ last.args = <<Str12, PyFalse>>
  /\ last.result.ok /\ last.result.value.args = <<Str12, PyFalse>>
  /\ ~_type_checked(Funcs[last.func], last.args, last.kwargs,
                    [config EXCEPT !["active"] = PyTrue]).ok

\* the store holds the three keys, a bool under each
StoreOk ==
  has_config
    => /\ DOMAIN config = ConfigKeys
       /\ \A k \in ConfigKeys : config[k] \in {PyTrue, PyFalse}
ValidSet(key, value) == key \in ConfigKeys /\ value.type = "bool"
\* the overrides before the first that Config.set refuses
ValidPrefix(overrides) ==
  SubSeq(overrides, 1,
         CHOOSE n \in 0..Len(overrides) :
           /\ \A i \in 1..n : ValidSet(overrides[i][1], overrides[i][2])
           /\ n < Len(overrides)
                => ~ValidSet(overrides[n + 1][1], overrides[n + 1][2]))
\* the value of key k after the sets of the sequence, old its value before
RECURSIVE AfterSets(_, _, _)
AfterSets(old, k, sets) ==
  IF sets = <<>> THEN old
  ELSE IF sets[Len(sets)][1] = k THEN sets[Len(sets)][2]
  ELSE AfterSets(old, k, SubSeq(sets, 1, Len(sets) - 1))
\* a step of Config.set: it succeeds exactly for a key of the store and a
\* bool, and then writes that value and no other; refused, it leaves every
\* value as it was
SetStep ==
  last'.op = "Config.set"
    => /\ last'.ok <=> ValidSet(last'.key, last'.value)
       /\ last'.ok
            => Config_config' = [Config_config EXCEPT ![last'.key] = last'.value]
       /\ ~last'.ok
            => /\ Config_config' = Config_config
               /\ last'.msg = IF last'.key \in ConfigKeys
                              THEN "{} is not a valid config value."
                              ELSE "{} is not a valid config key."
\* a step of Config.get: the value stored, or the default for a key the
\* store does not hold; no key added, no value changed
GetStep ==
  last'.op = "Config.get"
    => /\ last'.result = IF last'.key \in ConfigKeys
                         THEN Config_config[last'.key] ELSE last'.default
       /\ Config_config' = Config_config
\* a step of type_checked: the overrides are set one by one up to the first
\* refused
WrapStep ==
  last'.op = "type_checked"
    => /\ last'.ok <=> ValidPrefix(last'.overrides) = last'.overrides
       /\ \A k \in ConfigKeys :
            Config_config'[k] =
              AfterSets(Config_config[k], k, ValidPrefix(last'.overrides))
CallStep == last'.op = "call" => Config_config' = Config_config

\* C9 (config discipline): from the defaults {active: True, coerce: True,
\* debug: False}, created at the first access, and after any sequence of
\* Config.get, Config.set and wrap-time overrides, the store holds exactly
\* the keys active, coerce and debug and a bool under each.  A set with an
\* unknown key or a value that is not a bool raises and leaves every value
\* unchanged; a set that succeeds is what every later get returns until the
\* next set of that key that succeeds; a get of an unknown key returns the
\* default given and adds no key.
C9_ConfigDiscipline ==
  /\ [](StoreOk /\ (~has_config => Config_config = Defaults))
  /\ [][SetStep /\ GetStep /\ WrapStep /\ CallStep]_vars

\* coerce was set to False, then Config.set("coerce", 1) was refused: coerce
\* is still False
C9_Witness ==
  /\ last.op = "Config.set" /\ ~last.ok
  /\ last.key = "coerce" /\ last.value = Int1
  /\ has_config /\ config["coerce"] = PyFalse

\* a wrap with overrides that succeeds leaves each of them in the store
OverridesWritten ==
  (last'.op = "type_checked" /\ last'.ok /\ last'.overrides # <<>>)
    => /\ has_config'
       /\ \A i \in 1..Len(last'.overrides) :
            config'[last'.overrides[i][1]] = last'.overrides[i][2]
\* coerce changes with a Config.set or a wrap with overrides, never with a
\* call, a get or a wrap without overrides
Sticky ==
  Policy(Config_config').coerce # Policy(Config_config).coerce
    => \/ last'.op = "Config.set" /\ last'.key = "coerce"
       \/ last'.op = "type_checked" /\ last'.overrides # <<>>
\* the call ran under the store as it is, whoever wrapped what with which
\* overrides: strict when coerce is false, converting when it is true
GovernedByStore ==
  (Called /\ IsActive /\ last.args # <<>>
          /\ ~Satisfies(FirstShape, last.args[1]))
    => IF Coerce
       THEN /\ InTrace("type_(value)", last.result)
            /\ FirstValidation.ok
            /\ last.result.ok => last.result.value.args[1].id = "new"
       ELSE /\ IsMismatch(last.result, FirstShape, last.args[1])
            /\ NoConversion(last.result)

\* C10 (sticky global configuration): the overrides given when wrapping a
\* function are written to the one store at wrap time, before any call, and
\* are not scoped to that function.  Every call of every wrapped function,
\* wrapped earlier or later, with overrides or without, runs under the
\* values the store holds at the call: once a function is wrapped with
\* coerce=False, the calls of the functions wrapped without overrides are
\* strict until coerce is set again.
C10_StickyConfig ==
  /\ []GovernedByStore
  /\ [][OverridesWritten /\ Sticky]_vars

\* run_test was wrapped without overrides, then run_star with coerce=False:
\* the store says coerce False and run_test("12") raises
C10_Witness ==
  /\ last.op = "type_checked" /\ last.ok
  /\ last.func = "run_star" /\ last.overrides = <<<<"coerce", PyFalse>>>>
  /\ wrapped["run_test"] = "plain"
  /\ config["coerce"] = PyFalse
  /\ ~_type_checked(Funcs["run_test"], <<Str12>>, <<>>, config).ok

-----------------------------------------------------------------------------
(* Properties of _type_checked, checked under SpecC                         *)

\* the signature of the function called
Sig == Sigs[last.func]
\* the name holds a declared shape
Shaped(name) == name \in DOMAIN Sig.annotations
\* the name is a declared named parameter, positional-or-keyword or
\* keyword-only
Declared(name) == InSeq(name, Sig.args) \/ InSeq(name, Sig.kwonlyargs)
\* the validation of value against the shape of name, the value itself when
\* the name holds none
Against(name, value) ==
  IF Shaped(name)
  THEN _do_validation(Sig.annotations[name], value, Policy(config))
  ELSE Ok(value, <<>>)
\* the parameter of the positional value i: the i-th declared name, the
\* variadic-positional parameter past them
PositionalName(i) ==
  IF i <= Len(Sig.args) THEN Sig.args[i] ELSE Sig.varargs
Positionals ==
  [i \in 1..Len(last.args) |-> Against(PositionalName(i), last.args[i])]
\* the parameter of a keyword: its own name when that holds a shape or is a
\* declared named parameter, the variadic-keyword parameter otherwise
KeywordName(name) ==
  IF Shaped(name) \/ Declared(name) THEN name ELSE Sig.varkw
Keywords ==
  [i \in 1..Len(last.kwargs) |->
     Against(KeywordName(last.kwargs[i][1]), last.kwargs[i][2])]
\* r raises what the first failing validation of rs raised
RaisesFirstOf(r, rs) ==
  /\ ~r.ok
  /\ r.exc = rs[FirstBad(rs)].exc
  /\ r.msg = rs[FirstBad(rs)].msg

\* C11 (keyword routing): in an active call each keyword value whose name
\* holds a declared shape is replaced by its validation against that shape.
\* A keyword value for a declared named parameter without a shape,
\* positional-or-keyword or keyword-only, reaches the function as the same
\* object, also when the variadic-keyword parameter holds a shape; only the
\* names that are not declared named parameters are validated against the
\* variadic-keyword shape.  The function gets the keyword names supplied.
C11_KeywordRouting ==
  (Called /\ IsActive /\ AllOk(Positionals))
    => IF AllOk(Keywords)
       THEN /\ last.result.ok
            /\ last.result.value.kwargs =
                 [i \in 1..Len(last.kwargs) |->
                    <<last.kwargs[i][1], Keywords[i].value>>]
       ELSE RaisesFirstOf(last.result, Keywords)

\* run_kwonly(*args, ok:int, plain, **kwargs:str) called with plain=5: plain
\* is not in getfullargspec().args, so line 139 sends it to the shape of
\* **kwargs and the function gets the new str "5"
C11_Raises ==
  /\ Called /\ IsActive /\ Coerce
  /\ last.func = "run_kwonly" /\ last.args = <<>>
  /\ last.kwargs = <<<<"plain", Int5>>>>
  /\ last.result.ok
  /\ last.result.value.kwargs = <<<<"plain", New("str", <<"5">>)>>>>

\* C12 (positional routing): in an active call with n positional values the
\* function gets exactly n positional values in the same order.  Value i is
\* the validation of a[i] against the shape of the i-th declared parameter
\* name, or of the variadic-positional parameter at or past the number of
\* declared names; when that name holds no shape the function gets the same
\* object a[i].  No shape is applied to a value of another parameter.  A
\* positional value that does not validate fails the call with its error.
C12_PositionalRouting ==
  (Called /\ IsActive)
    => IF AllOk(Positionals)
       THEN /\ last.result.ok
              => /\ Len(last.result.value.args) = Len(last.args)
                 /\ last.result.value.args = ValuesOf(Positionals)
            /\ last.kwargs = <<>> => last.result.ok
       ELSE RaisesFirstOf(last.result, Positionals)

\* run_star(wat:int, *args:float, **kwargs:str) called with ("12", 5):
\* the int 12 for wat, the float 5.0 for *args
C12_Witness ==
  /\ Called /\ IsActive /\ Coerce
  /\ last.func = "run_star" /\ last.args = <<Str12, Int5>>
  /\ last.result.ok
  /\ last.result.value.args = <<New("int", 12), New("float", 50)>>

-----------------------------------------------------------------------------
(* Further properties of _do_validation, checked under SpecV                *)

\* the shape is a class, a list or tuple shape, a dict shape or a callable
WellFormed(type_) ==
  type_.kind \in {"type", "list", "tuple", "dict", "function"}
\* the ValueError of line 268
IsInvalidSpec(r) ==
  /\ ~r.ok
  /\ r.exc = "ValueError"
  /\ r.msg.fmt = "type {} is not a type or callable."

\* C13 (invalid shape): the validation raises the ValueError "type <shape>
\* is not a type or callable." if and only if the shape is neither a class,
\* a list, tuple or dict shape, nor a callable, whatever the value.  For a
\* well-formed shape, {K: V} included, and any value, a value that is no
\* dict included, it returns or raises the TypeError of a mismatch or of a
\* length mismatch, never that ValueError.
C13_InvalidSpec ==
  Done
    => /\ IsInvalidSpec(last.result) <=> ~WellFormed(last.type_)
       /\ WellFormed(last.type_)
            => last.result.ok \/ last.result.exc = "TypeError"

\* the shape {int: str} and the value 5: line 208 wants a dict value, no
\* later branch takes a dict shape, and line 268 raises the ValueError
C13_Raises ==
  /\ Done
  /\ last.type_ = DictShape(<<<<TypeShape("int"), TypeShape("str")>>>>)
  /\ last.value = Int5
  /\ IsInvalidSpec(last.result)
  /\ last.result.msg.type_ = last.type_

\* the value is one of those the sequence branch wraps in a list
Wrappable(v) == isinstance(v, {"str", "int", "bytes", "complex"})
\* the value came back as it was, nothing inside it validated
PassedThrough(r, v) ==
  /\ r.ok
  /\ SameObject(r.value, v)
  /\ Calls(r) = 1

\* C14 (empty-container sentinels): with the shape [] every list or tuple
\* value is returned as the same object, nothing inside it checked, and with
\* coerce on any other value is coerced as in the sequence branch: a str,
\* int, bytes or complex value is wrapped in a one-element sequence, any
\* other value is iterated into a sequence, with the TypeError of a mismatch
\* when it cannot be iterated.  With the shape {} every dict value is
\* returned as the same object, none of its entries validated.
C14_Sentinels ==
  /\ (Done /\ last.type_ = ListShape(<<>>))
       => /\ IsOrdered(last.value) => PassedThrough(last.result, last.value)
          /\ (~IsOrdered(last.value) /\ Coerce)
               => IF Wrappable(last.value)
                  THEN /\ last.result.ok
                       /\ last.result.value.val = <<last.value>>
                  ELSE IF Iterate(last.value).ok
                  THEN /\ last.result.ok
                       /\ last.result.value.val = Iterate(last.value).value
                  ELSE IsMismatch(last.result, TypeShape("list"), last.value)
  /\ (Done /\ last.type_ = DictShape(<<>>) /\ last.value.type = "dict")
       => PassedThrough(last.result, last.value)

\* the shape [] is taken for the class list (line 193): with coerce off the
\* tuple ("12", 5) is no instance of it and the TypeError is raised
C14_Raises ==
  /\ Done /\ ~Coerce
  /\ last.type_ = ListShape(<<>>)
  /\ last.value = Obj("tuple", "tuple", <<Str12, Int5>>)
  /\ IsMismatch(last.result, TypeShape("list"), last.value)

====
